---- MODULE Spec2Model ----
(***************************************************************************)
(* Database_Query_Chatbot: the request pipeline of chatbot_app             *)
(* (generate -> validate -> execute -> summarize) and its validation gate. *)
(*                                                                         *)
(* Text is modelled as a sequence of one-character strings, so that the    *)
(* substring scans, the regular expressions and the case folding of the    *)
(* code are computed character by character.                               *)
(*                                                                         *)
(* The bodies of ChatbotView._execute_query and ChatbotView._format_summary *)
(* (views.py:77-133) are read as the bodies of those methods.              *)
(***************************************************************************)
EXTENDS Integers, Sequences, FiniteSets, TLC

(***************************************************************************)
(* Characters and the str methods the code uses                            *)
(***************************************************************************)

\* str.lower() on one character (ASCII letters; every other character of the
\* model's alphabet is its own lower case).
LowerOf ==
    [c \in {"A","B","C","D","E","F","G","H","I","J","K","L","M",
            "N","O","P","Q","R","S","T","U","V","W","X","Y","Z"} |->
        CASE c = "A" -> "a" [] c = "B" -> "b" [] c = "C" -> "c" [] c = "D" -> "d"
          [] c = "E" -> "e" [] c = "F" -> "f" [] c = "G" -> "g" [] c = "H" -> "h"
          [] c = "I" -> "i" [] c = "J" -> "j" [] c = "K" -> "k" [] c = "L" -> "l"
          [] c = "M" -> "m" [] c = "N" -> "n" [] c = "O" -> "o" [] c = "P" -> "p"
          [] c = "Q" -> "q" [] c = "R" -> "r" [] c = "S" -> "s" [] c = "T" -> "t"
          [] c = "U" -> "u" [] c = "V" -> "v" [] c = "W" -> "w" [] c = "X" -> "x"
          [] c = "Y" -> "y" [] c = "Z" -> "z"]

lower_char(c) == IF c \in DOMAIN LowerOf THEN LowerOf[c] ELSE c

\* str.lower()
lower(s) == [i \in 1..Len(s) |-> lower_char(s[i])]

\* the characters \s of re (and of str.strip / str.split) matches
IsSpace(c) == c \in {" ", "\t", "\n", "\r", "\f"}

\* the characters \w of re matches
IsWord(c) ==
    lower_char(c) \in {"a","b","c","d","e","f","g","h","i","j","k","l","m",
                       "n","o","p","q","r","s","t","u","v","w","x","y","z",
                       "0","1","2","3","4","5","6","7","8","9","_"}

\* `sub in s` for strings
Contains(sub, s) ==
    \E i \in 1..(Len(s) - Len(sub) + 1) : SubSeq(s, i, i + Len(sub) - 1) = sub

\* s.startswith(prefix)
startswith(s, prefix) ==
    Len(prefix) <= Len(s) /\ SubSeq(s, 1, Len(prefix)) = prefix

\* s.endswith(suffix)
endswith(s, suffix) ==
    Len(suffix) <= Len(s) /\ SubSeq(s, Len(s) - Len(suffix) + 1, Len(s)) = suffix

\* s.strip()
strip(s) ==
    LET ns == {i \in 1..Len(s) : ~IsSpace(s[i])}
    IN  IF ns = {} THEN <<>>
        ELSE SubSeq(s, CHOOSE i \in ns : \A j \in ns : i <= j,
                       CHOOSE i \in ns : \A j \in ns : j <= i)

\* whether text s has the literal lit at position i
At(s, i, lit) ==
    i + Len(lit) - 1 <= Len(s) /\ SubSeq(s, i, i + Len(lit) - 1) = lit

\* the first position >= i of s that is not whitespace (Len(s)+1 when none)
RECURSIVE SkipSpace(_, _)
SkipSpace(s, i) ==
    IF i <= Len(s) /\ IsSpace(s[i]) THEN SkipSpace(s, i + 1) ELSE i

\* the first position >= i of s that is not a word character
RECURSIVE SkipWord(_, _)
SkipWord(s, i) ==
    IF i <= Len(s) /\ IsWord(s[i]) THEN SkipWord(s, i + 1) ELSE i

(***************************************************************************)
(* utils.validate_query                                                    *)
(***************************************************************************)

\* the exception messages of validate_query; a message is kept as its fixed
\* text plus the values formatted into it:
\*   keyword      the {keyword} of "Query contains forbidden operation: "
\*   invalid      the names joined after "Invalid tables in query: " (the code
\*                joins a set, whose order is not fixed; the set is kept)
\*   suggestions  the "Instead of '..', did you mean: ..?" lines
\*   valid        the names joined after "Valid tables are: "
\*   cause        the str(e) of the exception a message wraps ("" when none)
Message(text) ==
    [text |-> text, keyword |-> <<>>, invalid |-> {}, suggestions |-> {},
     valid |-> <<>>, cause |-> ""]

\* validate_query returned True
Accepted == [accepted |-> TRUE, error |-> Message("")]

\* validate_query raised QueryValidationError(msg)
QueryValidationError(msg) == [accepted |-> FALSE, error |-> msg]

forbidden_keywords ==
    << <<"d","r","o","p">>,
       <<"t","r","u","n","c","a","t","e">>,
       <<"d","e","l","e","t","e">>,
       <<"u","p","d","a","t","e">>,
       <<"i","n","s","e","r","t">>,
       <<"a","l","t","e","r">>,
       <<"c","r","e","a","t","e">>,
       <<"g","r","a","n","t">>,
       <<"r","e","v","o","k","e">> >>

\* `if not query or not query.strip()`
IsEmptyQuery(query) == query = <<>> \/ strip(query) = <<>>

\* a validator that compares the query as written
query_as_written(query) == query

\* query_lower = query.lower()
query_lower_of(query) == lower(query)

\* the keywords for which `keyword in query_lower` holds, in the order of the loop
ForbiddenFound(query_lower) ==
    SelectSeq(forbidden_keywords, LAMBDA keyword : Contains(keyword, query_lower))

\* a validator that looks for select anywhere in the query
NotSelect_Anywhere(query_lower) ==
    ~Contains(<<"s","e","l","e","c","t">>, query_lower)

\* `not query_lower.strip().startswith('select')`
NotSelect(query_lower) ==
    ~startswith(strip(query_lower), <<"s","e","l","e","c","t">>)

\* whether (?:from|join)\s+(\w+) matches at position i of s
TableMatchAt(s, i) ==
    /\ At(s, i, <<"f","r","o","m">>) \/ At(s, i, <<"j","o","i","n">>)
    /\ SkipSpace(s, i + 4) > i + 4
    /\ SkipSpace(s, i + 4) <= Len(s)
    /\ IsWord(s[SkipSpace(s, i + 4)])

\* set(re.findall(r'(?:from|join)\s+(\w+)', s)) scanning from position i:
\* the matches are taken leftmost-first and do not overlap
RECURSIVE FindTables(_, _)
FindTables(s, i) ==
    IF i > Len(s) THEN {}
    ELSE IF TableMatchAt(s, i)
         THEN LET k == SkipSpace(s, i + 4)
                  e == SkipWord(s, k)
              IN  {SubSeq(s, k, e - 1)} \cup FindTables(s, e)
         ELSE FindTables(s, i + 1)

tables_in_query(query_lower) == FindTables(query_lower, 1)

\* valid_tables_lower = set(table.lower() for table in valid_tables)
valid_tables_lower(valid_tables) ==
    {lower(valid_tables[i]) : i \in 1..Len(valid_tables)}

\* invalid_tables = tables_in_query - valid_tables_lower
invalid_tables(query_lower, valid_tables) ==
    tables_in_query(query_lower) \ valid_tables_lower(valid_tables)

\* [valid_table for valid_table in valid_tables
\*      if invalid_table in valid_table.lower()]
similar_tables(invalid_table, valid_tables) ==
    SelectSeq(valid_tables,
              LAMBDA valid_table : Contains(invalid_table, lower(valid_table)))

\* the suggestion lines, one for each invalid table that has similar tables
suggestions(invalid, valid_tables) ==
    {[invalid_table |-> t, similar_tables |-> similar_tables(t, valid_tables)] :
        t \in {u \in invalid : similar_tables(u, valid_tables) # <<>>}}

\* the character U+0060 of a code fence, which a string literal here cannot hold
Backquote == "<bq>"

\* code points of the model's alphabet, in increasing order
CodeOrder ==
    <<"\t","\n","\f","\r"," ","*",",","-","/",
      "0","1","2","3","4","5","6","7","8","9",";",
      "A","B","C","D","E","F","G","H","I","J","K","L","M",
      "N","O","P","Q","R","S","T","U","V","W","X","Y","Z","_",Backquote,
      "a","b","c","d","e","f","g","h","i","j","k","l","m",
      "n","o","p","q","r","s","t","u","v","w","x","y","z">>

ord(c) == CHOOSE i \in 1..Len(CodeOrder) : CodeOrder[i] = c

\* a < b for str (code point order)
RECURSIVE StrLess(_, _)
StrLess(a, b) ==
    IF b = <<>> THEN FALSE
    ELSE IF a = <<>> THEN TRUE
    ELSE IF a[1] # b[1] THEN ord(a[1]) < ord(b[1])
    ELSE StrLess(Tail(a), Tail(b))

\* sorted(names)
RECURSIVE sorted(_)
sorted(names) ==
    IF names = <<>> THEN <<>>
    ELSE LET rest == sorted(Tail(names))
             x    == names[1]
             n    == Cardinality({i \in 1..Len(rest) : StrLess(rest[i], x)})
         IN  SubSeq(rest, 1, n) \o <<x>> \o SubSeq(rest, n + 1, Len(rest))

\* the error_msg built for invalid tables (utils.py:138-142)
InvalidTablesMessage(invalid, valid_tables) ==
    LET sg == suggestions(invalid, valid_tables)
    IN  [text        |-> "Invalid tables in query: ",
         keyword     |-> <<>>,
         invalid     |-> invalid,
         suggestions |-> sg,
         valid       |-> IF sg # {} THEN <<>> ELSE sorted(valid_tables),
         cause       |-> ""]

\* `not re.search(r'from\s+\w+', query_lower)`
MissingFrom(query_lower) ==
    ~ \E i \in 1..Len(query_lower) :
          /\ At(query_lower, i, <<"f","r","o","m">>)
          /\ SkipSpace(query_lower, i + 4) > i + 4
          /\ SkipSpace(query_lower, i + 4) <= Len(query_lower)
          /\ IsWord(query_lower[SkipSpace(query_lower, i + 4)])

\* `'--' in query or '/*' in query`
HasComment(query) == Contains(<<"-","-">>, query) \/ Contains(<<"/","*">>, query)

\* a validator that looks for ; in the whole query
MultipleStatements_WholeText(query) == Contains(<<";">>, query)

\* `';' in query[:-1]`
MultipleStatements(query) ==
    Contains(<<";">>, SubSeq(query, 1, Len(query) - 1))

\* a validator that checks for SELECT before it scans for forbidden keywords
validate_query_SelectFirst(query, valid_tables) ==
    IF IsEmptyQuery(query)
    THEN QueryValidationError(Message("Empty query is not allowed"))
    ELSE LET query_lower == query_lower_of(query)
             found       == ForbiddenFound(query_lower)
         IN
    IF NotSelect(query_lower)
    THEN QueryValidationError(Message("Only SELECT queries are allowed"))
    ELSE IF found # <<>>
    THEN QueryValidationError(
             [Message("Query contains forbidden operation: ")
                EXCEPT !.keyword = found[1]])
    ELSE IF tables_in_query(query_lower) = {}
    THEN QueryValidationError(Message("No valid tables found in query"))
    ELSE IF invalid_tables(query_lower, valid_tables) # {}
    THEN QueryValidationError(
             InvalidTablesMessage(invalid_tables(query_lower, valid_tables),
                                  valid_tables))
    ELSE IF MissingFrom(query_lower)
    THEN QueryValidationError(
             Message("Invalid query structure: Missing FROM clause"))
    ELSE IF HasComment(query)
    THEN QueryValidationError(Message("SQL comments are not allowed"))
    ELSE IF MultipleStatements(query)
    THEN QueryValidationError(Message("Multiple SQL statements are not allowed"))
    ELSE Accepted

validate_query(query, valid_tables) ==
    IF IsEmptyQuery(query)
    THEN QueryValidationError(Message("Empty query is not allowed"))
    ELSE LET query_lower == query_lower_of(query)
             found       == ForbiddenFound(query_lower)
         IN
    IF found # <<>>
    THEN QueryValidationError(
             [Message("Query contains forbidden operation: ")
                EXCEPT !.keyword = found[1]])
    ELSE IF NotSelect(query_lower)
    THEN QueryValidationError(Message("Only SELECT queries are allowed"))
    ELSE IF tables_in_query(query_lower) = {}
    THEN QueryValidationError(Message("No valid tables found in query"))
    ELSE IF invalid_tables(query_lower, valid_tables) # {}
    THEN QueryValidationError(
             InvalidTablesMessage(invalid_tables(query_lower, valid_tables),
                                  valid_tables))
    ELSE IF MissingFrom(query_lower)
    THEN QueryValidationError(
             Message("Invalid query structure: Missing FROM clause"))
    ELSE IF HasComment(query)
    THEN QueryValidationError(Message("SQL comments are not allowed"))
    ELSE IF MultipleStatements(query)
    THEN QueryValidationError(Message("Multiple SQL statements are not allowed"))
    ELSE Accepted

(***************************************************************************)
(* Query synthesis: the clean-up of the model's text                       *)
(***************************************************************************)

Fence == <<Backquote, Backquote, Backquote>>

FenceSql == <<Backquote, Backquote, Backquote, "s", "q", "l">>

\* re.sub(r'```sql\s*|\s*```', '', s) from position i (utils.py:228): at each
\* position the first alternative is tried before the second
RECURSIVE RemoveFences(_, _)
RemoveFences(s, i) ==
    IF i > Len(s) THEN <<>>
    ELSE IF At(s, i, FenceSql) THEN RemoveFences(s, SkipSpace(s, i + 6))
    ELSE IF At(s, SkipSpace(s, i), Fence) THEN RemoveFences(s, SkipSpace(s, i) + 3)
    ELSE <<s[i]>> \o RemoveFences(s, i + 1)

\* re.sub(r'```sql|```', '', s) from position i (chatbot.py:31)
RECURSIVE RemoveMarkers(_, _)
RemoveMarkers(s, i) ==
    IF i > Len(s) THEN <<>>
    ELSE IF At(s, i, FenceSql) THEN RemoveMarkers(s, i + 6)
    ELSE IF At(s, i, Fence) THEN RemoveMarkers(s, i + 3)
    ELSE <<s[i]>> \o RemoveMarkers(s, i + 1)

\* ' '.join(s.split()): the words of s, one space between them
RECURSIVE NormalizeSpace(_)
NormalizeSpace(s) ==
    LET t == strip(s)
    IN  IF t = <<>> THEN <<>>
        ELSE LET e    == CHOOSE k \in 2..(Len(t) + 1) :
                             /\ k = Len(t) + 1 \/ IsSpace(t[k])
                             /\ \A j \in 1..(k - 1) : ~IsSpace(t[j])
                 rest == NormalizeSpace(SubSeq(t, e, Len(t)))
             IN  IF rest = <<>> THEN SubSeq(t, 1, e - 1)
                 ELSE SubSeq(t, 1, e - 1) \o <<" ">> \o rest

\* `if not query.endswith(';'): query += ';'`
EnsureSemicolon(query) ==
    IF endswith(query, <<";">>) THEN query ELSE query \o <<";">>

\* utils.generate_sql_query, from response.text to the returned query
CleanQuery(text) ==
    EnsureSemicolon(NormalizeSpace(strip(RemoveFences(strip(text), 1))))

\* chatbot.generate_sql_query, from response.text to the returned query
CleanQueryLegacy(text) ==
    EnsureSemicolon(strip(RemoveMarkers(strip(text), 1)))

(***************************************************************************)
(* ChatbotView._format_summary                                             *)
(***************************************************************************)

NoneValue == "<None>"

price_fields == <<"ListPrice", "StandardCost", "UnitPrice">>

skip_fields == {"Name", "ListPrice", "StandardCost", "UnitPrice"}

\* the line items of one row: the Name, the first price field that is present
\* and not None, then every other column that is not None
LineItems(columns, row) ==
    LET has(c)  == \E i \in 1..Len(columns) : columns[i] = c
        val(c)  == row[CHOOSE i \in 1..Len(columns) : columns[i] = c]
        prices  == SelectSeq(price_fields,
                             LAMBDA f : has(f) /\ val(f) # NoneValue)
        others  == SelectSeq(columns,
                             LAMBDA c : c \notin skip_fields /\ val(c) # NoneValue)
    IN  (IF has("Name") THEN << <<"str", "", val("Name")>> >> ELSE <<>>)
        \o (IF prices # <<>> THEN << <<".2f", "$", val(prices[1])>> >> ELSE <<>>)
        \o [i \in 1..Len(others) |-> <<"field", others[i], val(others[i])>>]

_format_summary(results, columns) ==
    IF results = <<>> THEN [header |-> "No results found.", count |-> 0, lines |-> <<>>]
    ELSE [header |-> "Found {result_count} result{s}:",
          count  |-> Len(results),
          lines  |-> [i \in 1..Len(results) |-> LineItems(columns, results[i])]]

(***************************************************************************)
(* Inputs of the model                                                     *)
(***************************************************************************)

\* the longest text, in fragments, a query given to the validator is put
\* together from
MaxFrags == 4

\* the longest text, in fragments, the generative model answers with
MaxRawFrags == 4

\* pieces of SQL text; every concatenation of a bounded number of them is a
\* text the validator, or the generative model's answer, is drawn from
Fragments ==
    { <<"S","e","l","e","c","t"," ","*"," ">>,
      <<"F","r","o","m"," ">>,
      <<"j","o","i","n"," ">>,
      <<"p","r","o","d","u","c","t">>,
      <<"F","r","o","m"," ","p","r","o","d","u","c","t">>,
      <<";">>,
      <<"D","r","O","p"," ">>,
      <<"c","r","e","a","t","e","d","_","a","t"," ">>,
      <<"-","-">>,
      <<"/","*">>,
      <<" ">> }

\* the pieces the generative model's answers are put together from
RawFragments ==
    { <<"S","e","l","e","c","t"," ","*"," ">>,
      <<"F","r","o","m"," ">>,
      <<"j","o","i","n"," ">>,
      <<"p","r","o","d","u","c","t">>,
      <<"z">>,
      <<";">>,
      <<"D","r","O","p"," ">> }

\* the concatenations of at most n of the pieces
RECURSIVE Texts(_, _)
Texts(pieces, n) ==
    IF n = 0 THEN {<<>>}
    ELSE LET shorter == Texts(pieces, n - 1)
         IN  shorter \cup {t \o f : t \in shorter, f \in pieces}

\* the model's answers: a text, bare or inside a code fence
RawTexts ==
    LET texts == Texts(RawFragments, MaxRawFrags)
    IN  texts \cup {FenceSql \o <<"\n">> \o t \o <<"\n">> \o Fence : t \in texts}

\* the table lists SHOW TABLES may return
TableLists ==
    { <<>>,
      << <<"p","r","o","d","u","c","t","i","o","n","_","p","r","o","d","u","c","t">> >>,
      << <<"s","a","l","e","s","_","c","u","s","t","o","m","e","r">>,
         <<"P","r","o","d","u","c","t">>,
         <<"p","r","o","d","u","c","t","i","o","n","_","p","r","o","d","u","c","t">> >> }

\* what cursor.fetchall() and cursor.description may return
ResultSets ==
    { [columns |-> <<"Name">>, rows |-> <<>>],
      [columns |-> <<"Name", "ListPrice", "Color">>,
       rows    |-> << <<"Bike", "12.5", NoneValue>> >>],
      [columns |-> <<"ProductID", "StandardCost">>,
       rows    |-> << <<"1", "3">>, <<"2", NoneValue>> >>] }

\* request.data.get('input'): None when the field is missing
NoInput == [present |-> FALSE, text |-> ""]

Inputs ==
    {NoInput, [present |-> TRUE, text |-> ""],
     [present |-> TRUE, text |-> "show me products under $50"]}

\* a handler that checks the input for None alone
Falsy_OnlyNone(input) == ~input.present

\* `not user_input`
Falsy(input) == ~input.present \/ input.text = ""

\* the messages of the exceptions the collaborators raise
ModelFailure == "429 quota exceeded"

DriverFailure == "(1054, Unknown column)"

(***************************************************************************)
(* State                                                                   *)
(***************************************************************************)

VARIABLES
    entry,          \* the entry point serving the request
    pc,             \* the statement the request is at
    api_key,        \* settings.GEMINI_API_KEY
    user_input,     \* the request's input
    sql_query,      \* the query generate_sql_query returned
    valid_tables,   \* the list get_table_names returned
    verdict,        \* the outcome of validate_query
    calls,          \* the calls the request has made so far, in order
    response        \* what the entry point returned

vars == <<entry, pc, api_key, user_input, sql_query, valid_tables, verdict,
          calls, response>>

NoVerdict == [accepted |-> FALSE, error |-> Message("<none>")]

NoResponse == [status |-> 0, body |-> [status |-> "<none>"]]

\* an entry of the call log
Call(op, query, accepted) == [op |-> op, query |-> query, accepted |-> accepted]

Called(op) == \E i \in 1..Len(calls) : calls[i].op = op

(***************************************************************************)
(* ChatbotView.post                                                        *)
(***************************************************************************)

\* Response({"error": "No input provided"}, status=400)
BadRequestResponse ==
    [status |-> 400, body |-> [error |-> Message("No input provided")]]

\* the handler of (DatabaseError, QueryValidationError) (views.py:51-57)
ErrorResponse(e, input) ==
    [status |-> 400,
     body   |-> [status |-> "error", error |-> e, user_input |-> input]]

\* the handler of APIConfigError (views.py:59-66)
ApiConfigResponse(e, input) ==
    [status |-> 500,
     body   |-> [status     |-> "error",
                 error      |-> Message("API configuration error. Please contact the administrator."),
                 details    |-> e,
                 user_input |-> input]]

\* the handler of Exception (views.py:68-75)
UnexpectedResponse(e, input) ==
    [status |-> 500,
     body   |-> [status     |-> "error",
                 error      |-> Message("An unexpected error occurred."),
                 details    |-> e,
                 user_input |-> input]]

\* the success response (views.py:43-49)
SuccessResponse(summary, input, query, columns, results) ==
    [status |-> 200,
     body   |-> [status     |-> "success",
                 summary    |-> summary,
                 user_input |-> input,
                 sql_query  |-> query,
                 results    |-> [i \in 1..Len(results) |->
                                    [j \in 1..Len(columns) |->
                                        <<columns[j], results[i][j]>>]]]]

\* a message that wraps str(e); every error and details value of a response is
\* kept as a message
Wrap(text, cause) == [Message(text) EXCEPT !.cause = cause]

\* post, up to the try block: the input is read and checked. A request
\* shares nothing with the requests before it but the settings, so one
\* request is followed from its arrival to its response.
Post ==
    /\ pc = "idle"
    /\ \E input \in Inputs :
          /\ user_input' = input
          /\ IF Falsy(input)
             THEN /\ response' = BadRequestResponse
                  /\ pc' = "done"
             ELSE /\ response' = NoResponse
                  /\ pc' = "generate_sql_query"
    /\ entry' = "post"
    /\ sql_query' = <<>>
    /\ valid_tables' = <<>>
    /\ verdict' = NoVerdict
    /\ calls' = <<>>
    /\ UNCHANGED api_key

\* sql_query = generate_sql_query(user_input): initialize_gemini_api fails
\* (the key is unset, or genai.configure raises)
GenerateSqlQuery_ApiConfigError ==
    /\ pc = "generate_sql_query"
    /\ \E configure_raises \in BOOLEAN :
          /\ api_key = "" \/ configure_raises
          /\ response' = ApiConfigResponse(
                 Wrap("Failed to initialize Gemini API: ",
                      IF api_key = "" THEN "GEMINI_API_KEY not found in settings"
                      ELSE ModelFailure),
                 user_input)
    /\ calls' = Append(calls, Call("initialize_gemini_api", <<>>, FALSE))
    /\ pc' = "done"
    /\ UNCHANGED <<entry, api_key, user_input, sql_query, valid_tables, verdict>>

\* sql_query = generate_sql_query(user_input): SHOW COLUMNS raises
GenerateSqlQuery_SchemaError ==
    /\ pc = "generate_sql_query"
    /\ api_key # ""
    /\ response' = ErrorResponse(
           Wrap("Failed to generate SQL query: ", DriverFailure), user_input)
    /\ calls' = calls \o << Call("initialize_gemini_api", <<>>, FALSE),
                            Call("SHOW COLUMNS", <<>>, FALSE) >>
    /\ pc' = "done"
    /\ UNCHANGED <<entry, api_key, user_input, sql_query, valid_tables, verdict>>

\* sql_query = generate_sql_query(user_input): model.generate_content raises
GenerateSqlQuery_ModelError ==
    /\ pc = "generate_sql_query"
    /\ api_key # ""
    /\ response' = ErrorResponse(
           Wrap("Failed to generate SQL query: ", ModelFailure), user_input)
    /\ calls' = calls \o << Call("initialize_gemini_api", <<>>, FALSE),
                            Call("SHOW COLUMNS", <<>>, FALSE),
                            Call("generate_content", <<>>, FALSE) >>
    /\ pc' = "done"
    /\ UNCHANGED <<entry, api_key, user_input, sql_query, valid_tables, verdict>>

\* sql_query = generate_sql_query(user_input): the model answers
GenerateSqlQuery_Return ==
    /\ pc = "generate_sql_query"
    /\ api_key # ""
    /\ \E text \in RawTexts : sql_query' = CleanQuery(text)
    /\ calls' = calls \o << Call("initialize_gemini_api", <<>>, FALSE),
                            Call("SHOW COLUMNS", <<>>, FALSE),
                            Call("generate_content", <<>>, FALSE) >>
    /\ pc' = "get_table_names"
    /\ UNCHANGED <<entry, api_key, user_input, valid_tables, verdict, response>>

\* valid_tables = get_table_names(): SHOW TABLES raises
GetTableNames_Error ==
    /\ pc = "get_table_names"
    /\ response' = ErrorResponse(
           Wrap("Failed to fetch table names: ", DriverFailure), user_input)
    /\ calls' = Append(calls, Call("get_table_names", <<>>, FALSE))
    /\ pc' = "done"
    /\ UNCHANGED <<entry, api_key, user_input, sql_query, valid_tables, verdict>>

\* valid_tables = get_table_names()
GetTableNames_Return ==
    /\ pc = "get_table_names"
    /\ \E tables \in TableLists : valid_tables' = tables
    /\ calls' = Append(calls, Call("get_table_names", <<>>, FALSE))
    /\ pc' = "validate_query"
    /\ UNCHANGED <<entry, api_key, user_input, sql_query, verdict, response>>

\* a handler that goes on to execute whatever the validator said
ValidateQuery_IgnoresVerdict ==
    /\ pc = "validate_query"
    /\ LET v == validate_query(sql_query, valid_tables)
       IN  /\ verdict' = v
           /\ calls' = Append(calls, Call("validate_query", sql_query, v.accepted))
    /\ pc' = "_execute_query"
    /\ UNCHANGED <<entry, api_key, user_input, sql_query, valid_tables, response>>

\* validate_query(sql_query, valid_tables)
ValidateQuery ==
    /\ pc = "validate_query"
    /\ LET v == validate_query(sql_query, valid_tables)
       IN  /\ verdict' = v
           /\ calls' = Append(calls, Call("validate_query", sql_query, v.accepted))
           /\ IF v.accepted
              THEN /\ pc' = "_execute_query"
                   /\ UNCHANGED response
              ELSE /\ pc' = "done"
                   /\ response' = ErrorResponse(v.error, user_input)
    /\ UNCHANGED <<entry, api_key, user_input, sql_query, valid_tables>>

\* query_result = self._execute_query(sql_query): the driver raises from
\* cursor.execute or cursor.fetchall, an exception that is neither
\* utils.DatabaseError nor one of the other two handled classes
ExecuteQuery_Error ==
    /\ pc = "_execute_query"
    /\ response' = UnexpectedResponse(Message(DriverFailure), user_input)
    /\ calls' = Append(calls, Call("_execute_query", sql_query, FALSE))
    /\ pc' = "done"
    /\ UNCHANGED <<entry, api_key, user_input, sql_query, valid_tables, verdict>>

\* query_result = self._execute_query(sql_query), the summary and the response
ExecuteQuery_Return ==
    /\ pc = "_execute_query"
    /\ \E rs \in ResultSets :
          response' = SuccessResponse(_format_summary(rs.rows, rs.columns),
                                      user_input, sql_query, rs.columns, rs.rows)
    /\ calls' = Append(calls, Call("_execute_query", sql_query, FALSE))
    /\ pc' = "done"
    /\ UNCHANGED <<entry, api_key, user_input, sql_query, valid_tables, verdict>>

(***************************************************************************)
(* chatbot.process_user_input                                              *)
(***************************************************************************)

\* return {"error": str(e)}
LegacyError(e) == [status |-> 0, body |-> [error |-> e]]

\* process_user_input is called
ProcessUserInput ==
    /\ pc = "idle"
    /\ \E input \in Inputs : user_input' = input
    /\ entry' = "process_user_input"
    /\ pc' = "legacy_generate_sql_query"
    /\ sql_query' = <<>>
    /\ valid_tables' = <<>>
    /\ verdict' = NoVerdict
    /\ calls' = <<>>
    /\ response' = NoResponse
    /\ UNCHANGED api_key

\* sql_query = generate_sql_query(user_input) of chatbot.py: generate_content raises
LegacyGenerate_Error ==
    /\ pc = "legacy_generate_sql_query"
    /\ response' = LegacyError(Message(ModelFailure))
    /\ calls' = Append(calls, Call("generate_content", <<>>, FALSE))
    /\ pc' = "done"
    /\ UNCHANGED <<entry, api_key, user_input, sql_query, valid_tables, verdict>>

\* sql_query = generate_sql_query(user_input) of chatbot.py
LegacyGenerate_Return ==
    /\ pc = "legacy_generate_sql_query"
    /\ \E text \in RawTexts : sql_query' = CleanQueryLegacy(text)
    /\ calls' = Append(calls, Call("generate_content", <<>>, FALSE))
    /\ pc' = "execute_query"
    /\ UNCHANGED <<entry, api_key, user_input, valid_tables, verdict, response>>

\* results = execute_query(sql_query): cursor.execute raises
LegacyExecute_Error ==
    /\ pc = "execute_query"
    /\ response' = LegacyError(Message(DriverFailure))
    /\ calls' = Append(calls, Call("execute_query", sql_query, FALSE))
    /\ pc' = "done"
    /\ UNCHANGED <<entry, api_key, user_input, sql_query, valid_tables, verdict>>

\* results = execute_query(sql_query)
LegacyExecute_Return ==
    /\ pc = "execute_query"
    /\ calls' = Append(calls, Call("execute_query", sql_query, FALSE))
    /\ pc' = "summarize_results"
    /\ UNCHANGED <<entry, api_key, user_input, sql_query, valid_tables, verdict,
                   response>>

\* summary = summarize_results(results) and the returned dict; the rows are
\* column-keyed records for a query that starts with select, and the number
\* of affected rows otherwise
LegacySummarize ==
    /\ pc = "summarize_results"
    /\ \E fails \in BOOLEAN :
          response' =
              IF fails THEN LegacyError(Message(ModelFailure))
              ELSE [status |-> 0,
                    body   |-> [user_input      |-> user_input,
                                generated_query |-> sql_query,
                                query_results   |->
                                    IF startswith(strip(lower(sql_query)),
                                                  <<"s","e","l","e","c","t">>)
                                    THEN "rows" ELSE "affected_rows",
                                summary         |-> "summary"]]
    /\ calls' = Append(calls, Call("generate_content", <<>>, FALSE))
    /\ pc' = "done"
    /\ UNCHANGED <<entry, api_key, user_input, sql_query, valid_tables, verdict>>

(***************************************************************************)
(* Specifications                                                          *)
(***************************************************************************)

Init ==
    /\ entry = "none"
    /\ pc = "idle"
    /\ api_key \in {"", "key"}
    /\ user_input = NoInput
    /\ sql_query = <<>>
    /\ valid_tables = <<>>
    /\ verdict = NoVerdict
    /\ calls = <<>>
    /\ response = NoResponse

Next ==
    \/ Post
    \/ GenerateSqlQuery_ApiConfigError
    \/ GenerateSqlQuery_SchemaError
    \/ GenerateSqlQuery_ModelError
    \/ GenerateSqlQuery_Return
    \/ GetTableNames_Error
    \/ GetTableNames_Return
    \/ ValidateQuery
    \/ ExecuteQuery_Error
    \/ ExecuteQuery_Return
    \/ ProcessUserInput
    \/ LegacyGenerate_Error
    \/ LegacyGenerate_Return
    \/ LegacyExecute_Error
    \/ LegacyExecute_Return
    \/ LegacySummarize

Spec == Init /\ [][Next]_vars

\* validate_query called on its own, on every text and table list of the bounds
InitValidator ==
    /\ entry = "validate_query"
    /\ pc = "validate_query"
    /\ api_key = "key"
    /\ user_input = NoInput
    /\ sql_query \in Texts(Fragments, MaxFrags)
    /\ valid_tables \in TableLists
    /\ verdict = NoVerdict
    /\ calls = <<>>
    /\ response = NoResponse

ValidateQueryCall ==
    /\ pc = "validate_query"
    /\ entry = "validate_query"
    /\ verdict' = validate_query(sql_query, valid_tables)
    /\ calls' = Append(calls, Call("validate_query", sql_query, verdict'.accepted))
    /\ pc' = "returned"
    /\ UNCHANGED <<entry, api_key, user_input, sql_query, valid_tables, response>>

NextValidator == ValidateQueryCall

SpecValidator == InitValidator /\ [][NextValidator]_vars

(***************************************************************************)
(* Properties                                                              *)
(***************************************************************************)

\* the nine forbidden keywords, as the specification lists them
NineKeywords ==
    { <<"d","r","o","p">>, <<"t","r","u","n","c","a","t","e">>,
      <<"d","e","l","e","t","e">>, <<"u","p","d","a","t","e">>,
      <<"i","n","s","e","r","t">>, <<"a","l","t","e","r">>,
      <<"c","r","e","a","t","e">>, <<"g","r","a","n","t">>,
      <<"r","e","v","o","k","e">> }

\* word occurs in text at some position, in any letter case
OccursAnyCase(word, text) ==
    \E i \in 1..(Len(text) - Len(word) + 1) :
        \A j \in 1..Len(word) : lower_char(text[i + j - 1]) = word[j]

HasForbiddenKeyword(text) == \E kw \in NineKeywords : OccursAnyCase(kw, text)

\* text is empty or whitespace only
Blank(text) == \A i \in 1..Len(text) : IsSpace(text[i])

\* text, after trimming, starts with select in any letter case
StartsWithSelect(text) ==
    \E i \in 1..Len(text) :
        /\ \A j \in 1..(i - 1) : IsSpace(text[j])
        /\ i + 5 <= Len(text)
        /\ \A j \in 1..6 :
              lower_char(text[i + j - 1]) = <<"s","e","l","e","c","t">>[j]

\* text holds a from, in any letter case, followed by whitespace and then an
\* identifier
HasFromIdentifier(text) ==
    \E i \in 1..Len(text) : \E k \in (i + 5)..Len(text) :
        /\ \A j \in 1..4 : lower_char(text[i + j - 1]) = <<"f","r","o","m">>[j]
        /\ \A j \in (i + 4)..(k - 1) : IsSpace(text[j])
        /\ IsWord(text[k])

\* the only ; of text, if any, is its final character
SemicolonOnlyLast(text) == \A i \in 1..Len(text) : text[i] = ";" => i = Len(text)

\* the identifiers extracted after from/join that are no table of the list
InvalidNames(text, tables) ==
    tables_in_query(lower(text)) \ {lower(tables[i]) : i \in 1..Len(tables)}

LastCall == calls[Len(calls)]

\* the request of ChatbotView.post ended with the validator rejecting the query
PostRejected ==
    /\ entry = "post"
    /\ pc = "done"
    /\ calls # <<>>
    /\ LastCall.op = "validate_query"
    /\ ~LastCall.accepted

\* C1: in ChatbotView.post, once validate_query has rejected the generated
\* query, _execute_query is not invoked for that request: no state has both a
\* rejecting validate_query call and an _execute_query call in the request's
\* calls, and the request is not at the _execute_query statement.
C1_RejectedNeverExecuted ==
    entry = "post" =>
        \A i \in 1..Len(calls) :
            (calls[i].op = "validate_query" /\ ~calls[i].accepted) =>
                /\ ~Called("_execute_query")
                /\ pc # "_execute_query"

C1_Witness ==
    /\ PostRejected
    /\ ~verdict.accepted
    /\ response.status = 400

\* C2: at both entry points, every execution of a query is preceded, in the
\* same request, by a validate_query call that accepted that same query.
C2_ExecuteOnlyAfterAccept ==
    \A i \in 1..Len(calls) :
        calls[i].op \in {"_execute_query", "execute_query"} =>
            \E j \in 1..(i - 1) :
                /\ calls[j].op = "validate_query"
                /\ calls[j].accepted
                /\ calls[j].query = calls[i].query

\* C3: in ChatbotView.post, a request whose input is missing or empty ends at
\* once with status 400 and the body {"error": "No input provided"}, having
\* made no call at all (no model call, no database call).
C3_NoInputBadRequest ==
    (entry = "post" /\ (~user_input.present \/ user_input.text = "")) =>
        /\ pc = "done"
        /\ response.status = 400
        /\ DOMAIN response.body = {"error"}
        /\ response.body.error.text = "No input provided"
        /\ calls = <<>>

C3_Witness ==
    /\ entry = "post"
    /\ user_input.present
    /\ user_input.text = ""
    /\ response.status = 400
    /\ calls = <<>>

\* C4: a query that contains one of the nine forbidden keywords, in any letter
\* case and at any position, is rejected by validate_query with the forbidden
\* operation reason, naming a forbidden keyword the query contains, whatever
\* valid_tables is.
C4_ForbiddenKeywordRejected ==
    (pc = "returned" /\ HasForbiddenKeyword(sql_query)) =>
        /\ ~verdict.accepted
        /\ verdict.error.text = "Query contains forbidden operation: "
        /\ verdict.error.keyword \in NineKeywords
        /\ OccursAnyCase(verdict.error.keyword, sql_query)

\* a SELECT over a valid table whose column name holds a keyword is rejected
C4_Witness ==
    /\ pc = "returned"
    /\ StartsWithSelect(sql_query)
    /\ InvalidNames(sql_query, valid_tables) = {}
    /\ tables_in_query(lower(sql_query)) # {}
    /\ Contains(<<"c","r","e","a","t","e","d","_","a","t">>, sql_query)
    /\ verdict.error.keyword = <<"c","r","e","a","t","e">>

\* C5 as stated: a query that does not start with select is rejected with the
\* reason "Only SELECT queries are allowed", whatever else it contains.
C5_NotSelectReason ==
    (pc = "returned" /\ ~StartsWithSelect(sql_query)) =>
        /\ ~verdict.accepted
        /\ verdict.error.text = "Only SELECT queries are allowed"

\* C5 amended: a query that does not start with select is rejected; the reason
\* is "Only SELECT queries are allowed" unless the query is blank (then "Empty
\* query is not allowed") or contains a forbidden keyword (then the forbidden
\* operation reason).
C5_NotSelectRejected ==
    (pc = "returned" /\ ~StartsWithSelect(sql_query)) =>
        /\ ~verdict.accepted
        /\ verdict.error.text =
              IF Blank(sql_query) THEN "Empty query is not allowed"
              ELSE IF HasForbiddenKeyword(sql_query)
                   THEN "Query contains forbidden operation: "
                   ELSE "Only SELECT queries are allowed"

\* a query that names a valid table after from, and holds select, but does
\* not start with it
C5_Witness ==
    /\ pc = "returned"
    /\ ~StartsWithSelect(sql_query)
    /\ OccursAnyCase(<<"s","e","l","e","c","t">>, sql_query)
    /\ tables_in_query(lower(sql_query)) # {}
    /\ InvalidNames(sql_query, valid_tables) = {}
    /\ verdict.error.text = "Only SELECT queries are allowed"

\* C6 as stated: a query that starts with select, whose identifiers extracted
\* after from/join are all valid tables, that holds neither -- nor /*, and
\* whose only ; is its final character, is accepted.
C6_WellFormedAccepted ==
    ( /\ pc = "returned"
      /\ StartsWithSelect(sql_query)
      /\ InvalidNames(sql_query, valid_tables) = {}
      /\ ~Contains(<<"-","-">>, sql_query)
      /\ ~Contains(<<"/","*">>, sql_query)
      /\ SemicolonOnlyLast(sql_query) ) => verdict.accepted

\* C6 amended: such a query is accepted provided also that it contains no
\* forbidden keyword (in any letter case) and that it holds a from followed by
\* whitespace and an identifier.
C6_WellFormedAcceptedAmended ==
    ( /\ pc = "returned"
      /\ StartsWithSelect(sql_query)
      /\ ~HasForbiddenKeyword(sql_query)
      /\ InvalidNames(sql_query, valid_tables) = {}
      /\ HasFromIdentifier(sql_query)
      /\ ~Contains(<<"-","-">>, sql_query)
      /\ ~Contains(<<"/","*">>, sql_query)
      /\ SemicolonOnlyLast(sql_query) ) => verdict.accepted

\* an accepted query that ends with its only ;
C6_Witness ==
    /\ pc = "returned"
    /\ verdict.accepted
    /\ sql_query # <<>>
    /\ sql_query[Len(sql_query)] = ";"

\* C7: in ChatbotView.post, when validate_query rejects the generated query the
\* response has status 400 and its envelope holds the rejection reason, the
\* echoed user_input and the text of the rejected query.
C7_RejectionEnvelope ==
    PostRejected =>
        /\ response.status = 400
        /\ response.body.error = verdict.error
        /\ response.body.user_input = user_input
        /\ "sql_query" \in DOMAIN response.body
        /\ response.body.sql_query = sql_query

\* C8: in ChatbotView.post, when the driver raises while an accepted query is
\* executed, the response has status 400 and carries the database's message
\* as its error, never the 500 "An unexpected error occurred." envelope.
C8_ExecutionFailureIs400 ==
    ( /\ entry = "post"
      /\ pc = "done"
      /\ Called("_execute_query")
      /\ response.body.status = "error" ) =>
        /\ response.status = 400
        /\ response.body.error.text = DriverFailure
        /\ response.body.user_input = user_input

\* C9: in ChatbotView.post, a request that ends in initialize_gemini_api, in
\* generate_content or in get_table_names failing has status 500 and the "API
\* configuration error" envelope.
C9_ServiceFailureIs500 ==
    ( /\ entry = "post"
      /\ pc = "done"
      /\ calls # <<>>
      /\ LastCall.op \in {"initialize_gemini_api", "generate_content",
                          "get_table_names"} ) =>
        /\ response.status = 500
        /\ response.body.error.text =
              "API configuration error. Please contact the administrator."

\* C10: in ChatbotView.post, when the validator rejects the generated query for
\* its tables, the status is 400, the message lists the invalid names, the
\* hallucinated productz gets a "did you mean" suggestion of a real table that
\* contains product whenever production_product is a table, and the valid
\* tables are enumerated only when there is no suggestion.
C10_InvalidTableSuggestion ==
    ( /\ PostRejected
      /\ verdict.error.text = "Invalid tables in query: " ) =>
        /\ response.status = 400
        /\ response.body.error.invalid = InvalidNames(sql_query, valid_tables)
        /\ response.body.error.suggestions # {} => response.body.error.valid = <<>>
        /\ ( /\ <<"p","r","o","d","u","c","t","z">>
                    \in InvalidNames(sql_query, valid_tables)
             /\ \E i \in 1..Len(valid_tables) : valid_tables[i] =
                    <<"p","r","o","d","u","c","t","i","o","n","_",
                      "p","r","o","d","u","c","t">> ) =>
               \E sg \in response.body.error.suggestions :
                   /\ sg.invalid_table = <<"p","r","o","d","u","c","t","z">>
                   /\ \E k \in 1..Len(sg.similar_tables) :
                         /\ \E i \in 1..Len(valid_tables) :
                               valid_tables[i] = sg.similar_tables[k]
                         /\ OccursAnyCase(<<"p","r","o","d","u","c","t">>,
                                          sg.similar_tables[k])

\* whether a text violates rule r of the validator, the rules numbered in the
\* order the specification lists them: 1 empty query, 2 forbidden keyword,
\* 3 not SELECT, 4 no tables found, 5 invalid tables, 6 missing FROM clause,
\* 7 comments, 8 multiple statements
Violates(r, text, tables) ==
    CASE r = 1 -> Blank(text)
      [] r = 2 -> HasForbiddenKeyword(text)
      [] r = 3 -> ~StartsWithSelect(text)
      [] r = 4 -> tables_in_query(lower(text)) = {}
      [] r = 5 -> InvalidNames(text, tables) # {}
      [] r = 6 -> ~HasFromIdentifier(text)
      [] r = 7 -> Contains(<<"-","-">>, text) \/ Contains(<<"/","*">>, text)
      [] r = 8 -> ~SemicolonOnlyLast(text)

\* the first rule from r on that the text violates, 9 when there is none
RECURSIVE FirstViolated(_, _, _)
FirstViolated(r, text, tables) ==
    IF r > 8 THEN 9
    ELSE IF Violates(r, text, tables) THEN r
    ELSE FirstViolated(r + 1, text, tables)

\* the fixed text of the reason each rule reports
RuleReason ==
    << "Empty query is not allowed",
       "Query contains forbidden operation: ",
       "Only SELECT queries are allowed",
       "No valid tables found in query",
       "Invalid tables in query: ",
       "Invalid query structure: Missing FROM clause",
       "SQL comments are not allowed",
       "Multiple SQL statements are not allowed" >>

\* C11: validate_query reports the reason of the first rule, in the order
\* empty query, forbidden keyword, not SELECT, no tables found, invalid tables,
\* missing FROM clause, comments, multiple statements, that the query
\* violates, never a later one's; it accepts exactly when no rule is violated.
C11_FirstViolatedRuleWins ==
    pc = "returned" =>
        LET first == FirstViolated(1, sql_query, valid_tables)
        IN  IF first = 9 THEN verdict.accepted
            ELSE /\ ~verdict.accepted
                 /\ verdict.error.text = RuleReason[first]

\* a SELECT that names an unknown table, holds a comment and holds a ; before
\* its end is rejected for the table
C11_Witness ==
    /\ pc = "returned"
    /\ \A r \in {5, 7, 8} : Violates(r, sql_query, valid_tables)
    /\ \A r \in 1..4 : ~Violates(r, sql_query, valid_tables)
    /\ verdict.error.text = "Invalid tables in query: "

====
